---- MODULE Spec2Model ----
(***************************************************************************)
(* Model of generator.c: main() reads count, min and max from standard     *)
(* input, opens randoms.txt for writing, seeds the pseudo-random source,   *)
(* writes count lines "min + rand() % (max - min + 1)" and reports.        *)
(*                                                                         *)
(* int is modelled as a two's complement integer of IntBits bits.  Signed  *)
(* overflow and division by zero are undefined behaviour: at each place    *)
(* the model offers the outcomes builds produce (the wrapped value or a    *)
(* trap for overflow; a SIGFPE trap or the dividend left unchanged for a   *)
(* remainder by zero).  A variable scanf fails to assign keeps an          *)
(* indeterminate value, which is any int.                                  *)
(* fprintf and fclose are taken to succeed: the code ignores their        *)
(* results.                                                                *)
(***************************************************************************)
EXTENDS Integers, Sequences, FiniteSets

\* ---- bounds of the model ----
\* width of int in bits (32 in the builds of the program)
IntBits == 3
\* largest count the input offers, so that the loop is finite and small
MaxCount == 2

\* ---- the int type (generator.c:6) ----
RECURSIVE Pow2(_)
Pow2(k) == IF k = 0 THEN 1 ELSE 2 * Pow2(k - 1)

INT_MAX == Pow2(IntBits - 1) - 1
INT_MIN == -Pow2(IntBits - 1)
Ints == INT_MIN..INT_MAX
InInt(x) == INT_MIN <= x /\ x <= INT_MAX

\* two's complement wrap-around of a mathematical integer
Wrap(x) == ((x - INT_MIN) % Pow2(IntBits)) + INT_MIN

\* largest value rand() returns (glibc: RAND_MAX = INT_MAX)
RAND_MAX == INT_MAX
Draws == 0..RAND_MAX

Abs(x) == IF x < 0 THEN -x ELSE x

\* C's % on ints, divisor non-zero: truncated division, sign of the dividend
CRem(a, b) == IF a >= 0 THEN a % Abs(b) ELSE -((-a) % Abs(b))

\* ---- evaluation of line 16 with its undefined behaviour ----
Trapped == [trap |-> TRUE, val |-> 0, divisor |-> 0, rem |-> 0]

\* a signed + or - whose mathematical result is x
SignedResult(x) ==
    IF InInt(x) THEN {[trap |-> FALSE, val |-> x]}
    ELSE {[trap |-> FALSE, val |-> Wrap(x)], [trap |-> TRUE, val |-> 0]}

\* r % m: a divisor 0 traps (SIGFPE) or leaves the dividend (sdiv/msub)
RemResult(r, m) ==
    IF m = 0 THEN {[trap |-> FALSE, val |-> r], [trap |-> TRUE, val |-> 0]}
    ELSE {[trap |-> FALSE, val |-> CRem(r, m)]}

\* RangeSize with the "+ 1" doubled: (hi - lo + 2)
RangeSizePlusTwo(lo, hi) ==
    UNION { IF d.trap THEN {d} ELSE SignedResult(d.val + 2)
            : d \in SignedResult(hi - lo) }

\* RangeSize with the "+ 1" forgotten: (hi - lo)
RangeSizeNoPlusOne(lo, hi) == SignedResult(hi - lo)

\* (hi - lo + 1)
RangeSize(lo, hi) ==
    UNION { IF d.trap THEN {d} ELSE SignedResult(d.val + 1)
            : d \in SignedResult(hi - lo) }

\* lo + r % (hi - lo + 1): the outcomes, each with the divisor and the
\* remainder it went through
NumOutcomes(lo, hi, r) ==
    UNION { IF m.trap THEN {Trapped}
            ELSE UNION { IF q.trap THEN {Trapped}
                         ELSE { IF s.trap THEN Trapped
                                ELSE [trap |-> FALSE, val |-> s.val,
                                      divisor |-> m.val, rem |-> q.val]
                                : s \in SignedResult(lo + q.val) }
                         : q \in RemResult(r, m.val) }
            : m \in RangeSize(lo, hi) }

\* LoopCond written as i != n
LoopCondNotEqual(k, cnt) == k # cnt

\* i < n of the for statement
LoopCond(k, cnt) == k < cnt

\* ---- fprintf(f, "%d\n", num) ----
DigitChar == <<"0", "1", "2", "3", "4", "5", "6", "7", "8", "9">>

RECURSIVE Digits(_)
Digits(x) ==
    IF x < 10 THEN <<DigitChar[x + 1]>>
    ELSE Digits(x \div 10) \o <<DigitChar[(x % 10) + 1]>>

FormatInt(v) == IF v < 0 THEN <<"-">> \o Digits(-v) ELSE Digits(v)

FormatLine(v) == FormatInt(v) \o <<"\n">>

\* ---- the environment ----
\* what randoms.txt may hold before the run
OldContent == <<"4", "2", "\n", "x">>
\* values scanf can deliver for count
CountInputs == INT_MIN..(IF MaxCount < INT_MAX THEN MaxCount ELSE INT_MAX)

VARIABLES
    pc,          \* position in main
    n, min, max, \* the three ints of line 6 that are read
    i,           \* loop counter
    f,           \* FILE *f: "unset", "null", "open", "closed"
    fileExists,  \* randoms.txt exists on disk
    file,        \* its content on disk, a sequence of characters
    prior,       \* its content when the process started
    buf,         \* characters fprintf put in the stream, not yet on disk
    seeded,      \* srand was called
    draws,       \* number of rand() calls
    out,         \* messages printed to standard output
    ret          \* value returned by main, meaningful when pc = "Exit"

vars == <<pc, n, min, max, i, f, fileExists, file, prior, buf, seeded, draws, out, ret>>

Init ==
    /\ pc = "ReadCount"
    /\ n \in CountInputs
    /\ min \in Ints
    /\ max \in Ints
    /\ i = 0
    /\ f = "unset"
    /\ \/ fileExists = FALSE /\ file = <<>>
       \/ fileExists = TRUE /\ file = OldContent
    /\ prior = file
    /\ buf = <<>>
    /\ seeded = FALSE
    /\ draws = 0
    /\ out = <<>>
    /\ ret = 0

\* lines 7-8: prompt, scanf("%d", &n); a failed scanf leaves n as it is
ReadCount ==
    /\ pc = "ReadCount"
    /\ out' = Append(out, "PromptCount")
    /\ \/ \E v \in CountInputs : n' = v
       \/ n' = n
    /\ pc' = "ReadMin"
    /\ UNCHANGED <<min, max, i, f, fileExists, file, prior, buf, seeded, draws, ret>>

\* line 9
ReadMin ==
    /\ pc = "ReadMin"
    /\ out' = Append(out, "PromptMin")
    /\ \/ \E v \in Ints : min' = v
       \/ min' = min
    /\ pc' = "ReadMax"
    /\ UNCHANGED <<n, max, i, f, fileExists, file, prior, buf, seeded, draws, ret>>

\* line 10
ReadMax ==
    /\ pc = "ReadMax"
    /\ out' = Append(out, "PromptMax")
    /\ \/ \E v \in Ints : max' = v
       \/ max' = max
    /\ pc' = "OpenOutput"
    /\ UNCHANGED <<n, min, i, f, fileExists, file, prior, buf, seeded, draws, ret>>

\* OpenOk with mode "a" in place of "w": the old content stays
OpenAppend ==
    /\ pc = "OpenOutput"
    /\ f' = "open"
    /\ fileExists' = TRUE
    /\ file' = file
    /\ pc' = "Seed"
    /\ UNCHANGED <<n, min, max, i, prior, buf, seeded, draws, out, ret>>

\* line 12, fopen succeeds: the file is created or truncated
OpenOk ==
    /\ pc = "OpenOutput"
    /\ f' = "open"
    /\ fileExists' = TRUE
    /\ file' = <<>>
    /\ pc' = "Seed"
    /\ UNCHANGED <<n, min, max, i, prior, buf, seeded, draws, out, ret>>

\* OpenFail without the check of line 13: execution goes on to srand
OpenFailUnchecked ==
    /\ pc = "OpenOutput"
    /\ f' = "null"
    /\ pc' = "Seed"
    /\ UNCHANGED <<n, min, max, i, fileExists, file, prior, buf, seeded, draws, out, ret>>

\* line 12, fopen fails: f is NULL, the disk is untouched
OpenFail ==
    /\ pc = "OpenOutput"
    /\ f' = "null"
    /\ pc' = "ReportError"
    /\ UNCHANGED <<n, min, max, i, fileExists, file, prior, buf, seeded, draws, out, ret>>

\* line 13: if (!f) { printf(error); return 1; }
ReportError ==
    /\ pc = "ReportError"
    /\ out' = Append(out, "Error")
    /\ ret' = 1
    /\ pc' = "Exit"
    /\ UNCHANGED <<n, min, max, i, f, fileExists, file, prior, buf, seeded, draws>>

\* line 14: srand(time(0))
Seed ==
    /\ pc = "Seed"
    /\ seeded' = TRUE
    /\ pc' = "LoopTest"
    /\ UNCHANGED <<n, min, max, i, f, fileExists, file, prior, buf, draws, out, ret>>

\* line 15: i < n
LoopTest ==
    /\ pc = "LoopTest"
    /\ pc' = IF LoopCond(i, n) THEN "Body" ELSE "CloseOutput"
    /\ UNCHANGED <<n, min, max, i, f, fileExists, file, prior, buf, seeded, draws, out, ret>>

\* lines 16-17 and ++i: one draw, one line into the stream
GenerateLine ==
    /\ pc = "Body"
    /\ \E r \in Draws : \E o \in NumOutcomes(min, max, r) :
          /\ ~o.trap
          /\ buf' = buf \o FormatLine(o.val)
    /\ draws' = draws + 1
    /\ i' = i + 1
    /\ pc' = "LoopTest"
    /\ UNCHANGED <<n, min, max, f, fileExists, file, prior, seeded, out, ret>>

\* line 16 traps: the process is killed, the stream is never flushed.  The
\* operands of + are unsequenced, so a trap in (max - min + 1) comes before
\* or after the call of rand()
GenerateTrap ==
    /\ pc = "Body"
    /\ \/ /\ \E m \in RangeSize(min, max) : m.trap
          /\ draws' \in {draws, draws + 1}
       \/ /\ \E r \in Draws : \E o \in NumOutcomes(min, max, r) : o.trap
          /\ draws' = draws + 1
    /\ buf' = <<>>
    /\ pc' = "Crashed"
    /\ UNCHANGED <<n, min, max, i, f, fileExists, file, prior, seeded, out, ret>>

\* CloseOutput with the fclose forgotten
CloseSkipped ==
    /\ pc = "CloseOutput"
    /\ pc' = "ReportSuccess"
    /\ UNCHANGED <<n, min, max, i, f, fileExists, file, prior, buf, seeded, draws, out, ret>>

\* line 19: fclose(f) flushes the stream to the disk
CloseOutput ==
    /\ pc = "CloseOutput"
    /\ file' = file \o buf
    /\ buf' = <<>>
    /\ f' = "closed"
    /\ pc' = "ReportSuccess"
    /\ UNCHANGED <<n, min, max, i, fileExists, prior, seeded, draws, out, ret>>

\* lines 20-21: printf(success); return 0;
ReportSuccess ==
    /\ pc = "ReportSuccess"
    /\ out' = Append(out, "Success")
    /\ ret' = 0
    /\ pc' = "Exit"
    /\ UNCHANGED <<n, min, max, i, f, fileExists, file, prior, buf, seeded, draws>>

Next ==
    \/ ReadCount
    \/ ReadMin
    \/ ReadMax
    \/ OpenOk
    \/ OpenFail
    \/ ReportError
    \/ Seed
    \/ LoopTest
    \/ GenerateLine
    \/ GenerateTrap
    \/ CloseOutput
    \/ ReportSuccess

Spec == Init /\ [][Next]_vars


\* ---- reading the file back ----
RECURSIVE LinesFrom(_, _, _)
LinesFrom(s, k, cur) ==
    IF k > Len(s) THEN <<>>
    ELSE IF s[k] = "\n" THEN <<cur>> \o LinesFrom(s, k + 1, <<>>)
    ELSE LinesFrom(s, k + 1, Append(cur, s[k]))

\* the newline-terminated lines of s, without their newlines
CompleteLines(s) == LinesFrom(s, 1, <<>>)

EndsWithNewline(s) == s = <<>> \/ s[Len(s)] = "\n"

IsDigit(c) == \E d \in 1..10 : DigitChar[d] = c
DigitValue(c) == CHOOSE d \in 0..9 : DigitChar[d + 1] = c

IsNumeral(l) ==
    /\ l # <<>>
    /\ LET body == IF l[1] = "-" THEN Tail(l) ELSE l
       IN  body # <<>> /\ \A k \in 1..Len(body) : IsDigit(body[k])

RECURSIVE NatOf(_)
NatOf(l) ==
    IF l = <<>> THEN 0
    ELSE 10 * NatOf(SubSeq(l, 1, Len(l) - 1)) + DigitValue(l[Len(l)])

ParseInt(l) == IF l[1] = "-" THEN -NatOf(Tail(l)) ELSE NatOf(l)

\* everything written since fopen: what is on disk and what is in the stream
Stream == file \o buf

Opened == f \in {"open", "closed"}
Terminated == pc \in {"Exit", "Crashed"}

Occurrences(s, x) == Cardinality({k \in 1..Len(s) : s[k] = x})

\* number of raw draws that the reduction maps to v
DrawCount(lo, hi, v) ==
    Cardinality({r \in Draws : \E o \in NumOutcomes(lo, hi, r) : ~o.trap /\ o.val = v})

\* ---- claims ----

\* C1: when the file opened and count >= 0 and min <= max, the file holds
\* exactly count newline-terminated lines once the process has ended.
C1_ExactlyCountLines ==
    (Terminated /\ Opened /\ n >= 0 /\ min <= max)
        => /\ Len(CompleteLines(file)) = n
           /\ EndsWithNewline(file)

\* C2: with count >= 0 and min <= max, every line written since fopen is a
\* decimal numeral whose value v satisfies min <= v <= max.
C2_ValuesInRange ==
    (Opened /\ n >= 0 /\ min <= max)
        => \A k \in 1..Len(CompleteLines(Stream)) :
              LET l == CompleteLines(Stream)[k]
              IN  IsNumeral(l) /\ min <= ParseInt(l) /\ ParseInt(l) <= max

\* a finished run that wrote lines for a range whose size max - min + 1
\* does not fit an int
C2_Witness ==
    /\ pc = "Exit" /\ f = "closed" /\ n >= 1 /\ min <= max
    /\ max - min >= INT_MAX
    /\ Len(CompleteLines(file)) = n

\* C3: when fopen fails the error message is printed, nothing is seeded,
\* drawn or written, the success message is not printed, main returns 1,
\* and the open is not tried again.
C3_OpenFailure ==
    /\ [](f = "null" =>
            /\ pc \in {"ReportError", "Exit"}
            /\ ~seeded /\ draws = 0 /\ i = 0
            /\ buf = <<>> /\ file = prior
            /\ Occurrences(out, "Success") = 0
            /\ pc = "Exit" => /\ ret = 1
                              /\ Occurrences(out, "Error") = 1
                              /\ out[Len(out)] = "Error")
    /\ [][f = "null" => /\ f' = "null"
                        /\ UNCHANGED <<fileExists, file, buf, seeded, draws, i>>]_vars

\* a run that ended after a failed fopen, with old content in the file
C3_Witness == pc = "Exit" /\ f = "null" /\ prior # <<>>

\* C4: with count = 0 and the file opened, nothing is drawn, and at exit
\* the file exists and is empty whatever it held, the success message is
\* printed and main returns 0.
C4_ZeroCount ==
    (n = 0 /\ Opened)
        => /\ pc # "Crashed"
           /\ draws = 0
           /\ pc = "Exit" => /\ fileExists /\ file = <<>>
                             /\ ret = 0
                             /\ out[Len(out)] = "Success"
                             /\ Occurrences(out, "Error") = 0

\* a finished run with count = 0 over a file that had content
C4_Witness == pc = "Exit" /\ n = 0 /\ f = "closed" /\ prior # <<>>

\* C5: with min = max and count >= 0 every written value equals min.
C5_MinEqualsMax ==
    (Opened /\ n >= 0 /\ min = max)
        => \A k \in 1..Len(CompleteLines(Stream)) :
              LET l == CompleteLines(Stream)[k]
              IN  IsNumeral(l) /\ ParseInt(l) = min

\* a finished run that wrote lines with min = max
C5_Witness ==
    /\ pc = "Exit" /\ f = "closed" /\ n >= 1 /\ min = max
    /\ Len(CompleteLines(file)) = n

\* C6: every run ends in Exit(0) or Exit(1): status 1 exactly when the file
\* could not be opened, and exactly one of the two messages printed.
C6_TwoTerminalStates ==
    Terminated
        => /\ pc = "Exit"
           /\ ret \in {0, 1}
           /\ ret = 1 <=> f = "null"
           /\ Occurrences(out, "Success") + Occurrences(out, "Error") = 1

\* C7: with count < 0 and the file opened, the loop body never runs, no
\* draw is made, the file stays empty, and the run ends with the success
\* message and status 0.
C7_NegativeCount ==
    (n < 0 /\ Opened)
        => /\ pc \notin {"Body", "Crashed"}
           /\ i = 0 /\ draws = 0
           /\ Stream = <<>>
           /\ pc = "Exit" => /\ ret = 0
                             /\ out[Len(out)] = "Success"

\* a finished run with a negative count over a file that had content
C7_Witness == pc = "Exit" /\ n < 0 /\ f = "closed" /\ prior # <<>>

\* C8: for min <= max every value of [min, max] is produced by the same
\* number of raw draws.
C8_Uniform ==
    (pc = "Body" /\ min <= max)
        => \A v, w \in min..max : DrawCount(min, max, v) = DrawCount(min, max, w)

\* C9: the three parameters are read in order before the file is opened;
\* the file is opened before seeding and before any draw or write; writes
\* happen only while it is open; it is closed before the success message;
\* nothing is written after the close and it is not open at Exit.
C9_Sequential ==
    /\ [](/\ f # "unset" => /\ pc \notin {"ReadCount", "ReadMin", "ReadMax"}
                            /\ Len(out) >= 3
                            /\ SubSeq(out, 1, 3) = <<"PromptCount", "PromptMin", "PromptMax">>
          /\ (seeded \/ draws > 0 \/ buf # <<>>) => Opened
          /\ Occurrences(out, "Success") > 0 => f = "closed"
          /\ f = "closed" => buf = <<>>
          /\ pc = "Exit" => f # "open")
    /\ [][/\ n' # n => pc = "ReadCount"
          /\ min' # min => pc = "ReadMin"
          /\ max' # max => pc = "ReadMax"
          /\ f' # f /\ f = "unset" => pc = "OpenOutput" /\ ~seeded /\ draws = 0
          /\ (seeded' # seeded \/ draws' # draws) => f = "open" /\ f' = "open"
          /\ Stream' # Stream /\ f # "unset" => f = "open" /\ f' = "open"
          /\ f = "closed" => f' = "closed" /\ UNCHANGED <<file, buf>>]_vars

\* a finished run that drew, wrote and closed
C9_Witness == pc = "Exit" /\ f = "closed" /\ draws >= 1 /\ file # <<>>

\* C10: when min <= max and max - min + 1 fits an int, line 16 has no
\* undefined behaviour for any draw: the divisor is max - min + 1 >= 1, the
\* remainder lies in [0, max - min] and the sum is an int.
C10_NoOverflow ==
    (min <= max /\ max - min < INT_MAX)
        => /\ pc # "Crashed"
           /\ pc = "Body" =>
                /\ ~ENABLED GenerateTrap
                /\ \A r \in Draws :
                     /\ Cardinality(NumOutcomes(min, max, r)) = 1
                     /\ \A o \in NumOutcomes(min, max, r) :
                          /\ ~o.trap
                          /\ o.divisor = max - min + 1 /\ o.divisor >= 1
                          /\ 0 <= o.rem /\ o.rem <= max - min
                          /\ o.val = min + o.rem /\ InInt(o.val)

\* the loop is about to draw again for the widest range that fits
C10_Witness ==
    pc = "Body" /\ i >= 1 /\ min <= max /\ max - min = INT_MAX - 1

====
